---- MODULE Spec2Model ----
(***************************************************************************)
(* The S&P 500 investment calculator: the calculation engine of            *)
(* src/unnamed/part_001 (calculateFutureValue, calculateRequiredInvestment,*)
(* calculateProjections, calculateYearsToMilestone,                        *)
(* calculateInvestmentMetrics) and the callers that drive it.              *)
(*                                                                         *)
(* Numbers.  Every value the engine computes is a JavaScript Number, an    *)
(* IEEE-754 binary64.  A Number is modelled as a record                    *)
(*     [k, s, m, e]   k in {"num", "nan", "inf"},  s in {1, -1},           *)
(* whose value for k = "num" is s * m * 2^e, with the 53-bit significand m *)
(* held in four little-endian limbs of LimbBits bits and normalised to     *)
(* 2^52 <= m < 2^53 (zero is m = 0, e = 0, s = 1).  +, -, *, / round to    *)
(* nearest, ties to even, overflow to Infinity, and produce NaN where      *)
(* IEEE-754 does (0/0, Infinity - Infinity, 0 * Infinity).  Two things are *)
(* not carried: the sign of zero, and the reduced precision of subnormal   *)
(* values (results below 2^-1074 become 0).  Math.pow is                   *)
(* implementation-approximated in ECMAScript; here an integer exponent is  *)
(* computed by binary exponentiation and any other exponent as             *)
(* exp(y ln x), both within a few hundred units in the last place of the   *)
(* exact power.                                                            *)
(***************************************************************************)
EXTENDS Integers, Sequences, FiniteSets

(***************************************************************************)
(* Limb arithmetic on natural numbers held as little-endian sequences.     *)
(***************************************************************************)
LimbBits == 14
LimbBase == 16384
SigBits == 53
MaxExp == 1023
MinExp == 1074

Pow2(n) == 2 ^ n

Max2(x, y) == IF x >= y THEN x ELSE y

Min2(x, y) == IF x <= y THEN x ELSE y

Abs(x) == IF x < 0 THEN 0 - x ELSE x

LimbAt(a, i) == IF i >= 1 /\ i <= Len(a) THEN a[i] ELSE 0

LIsZero(a) == \A i \in 1..Len(a) : a[i] = 0

\* limb i of floor(a / 2^(q * LimbBits + b))
LShrLimb(a, q, b, i) ==
  (LimbAt(a, i + q) \div Pow2(b)) + (LimbAt(a, i + q + 1) % Pow2(b)) * Pow2(LimbBits - b)

\* the limbs acc of the shifted number, completed to n limbs
RECURSIVE LShrFrom(_, _, _, _, _)
LShrFrom(a, q, b, n, acc) ==
  IF Len(acc) >= n THEN acc
  ELSE LShrFrom(a, q, b, n, Append(acc, LShrLimb(a, q, b, Len(acc) + 1)))

\* floor(a / 2^s) in n limbs; s < 0 shifts to the left
LShr(a, s, n) == LShrFrom(a, s \div LimbBits, s % LimbBits, n, <<>>)

\* a * 2^s in n limbs
LShl(a, s, n) == LShr(a, 0 - s, n)

\* is any of the low s bits of a set
LLowBits(a, s) ==
  (\E i \in 1..Len(a) : i <= s \div LimbBits /\ a[i] # 0)
    \/ LimbAt(a, (s \div LimbBits) + 1) % Pow2(s % LimbBits) # 0

LBit(a, k) == (LimbAt(a, (k \div LimbBits) + 1) \div Pow2(k % LimbBits)) % 2

\* the number of bits of a limb x
IntBitLen(x) == Cardinality({k \in 0..(LimbBits - 1) : Pow2(k) <= x})

\* the index of the highest limb of a that is not zero
LTop(a) == CHOOSE i \in 1..Len(a) : a[i] # 0 /\ \A j \in (i + 1)..Len(a) : a[j] = 0

\* the number of bits of a
LBitLen(a) == IF LIsZero(a) THEN 0 ELSE LimbBits * (LTop(a) - 1) + IntBitLen(a[LTop(a)])

\* limb i of a + sg * b before the carry out of it is taken away
LAddLimb(a, b, sg, i, carry) == LimbAt(a, i) + sg * LimbAt(b, i) + carry

\* the limbs acc of a + sg * b and the carry into the next limb, completed
RECURSIVE LAddFrom(_, _, _, _, _)
LAddFrom(a, b, sg, carry, acc) ==
  IF Len(acc) >= Max2(Len(a), Len(b)) /\ carry = 0 THEN acc
  ELSE LAddFrom(a, b, sg, LAddLimb(a, b, sg, Len(acc) + 1, carry) \div LimbBase,
                Append(acc, LAddLimb(a, b, sg, Len(acc) + 1, carry) % LimbBase))

\* a + b
LAdd(a, b) == LAddFrom(a, b, 1, 0, <<>>)

\* a - b for a >= b (floor division carries the borrow)
LSub(a, b) == LAddFrom(a, b, -1, 0, <<>>)

RECURSIVE LCmpFrom(_, _, _)
LCmpFrom(a, b, i) ==
  IF i = 0 THEN 0
  ELSE IF LimbAt(a, i) > LimbAt(b, i) THEN 1
  ELSE IF LimbAt(a, i) < LimbAt(b, i) THEN -1
  ELSE LCmpFrom(a, b, i - 1)

LCmp(a, b) == LCmpFrom(a, b, Max2(Len(a), Len(b)))

LMulTerm(a, b, i, k) == IF k + 1 - i >= 1 /\ k + 1 - i <= 4 THEN a[i] * b[k + 1 - i] ELSE 0

\* limb k of a * b, with the carry into limb k + 1
LMulLimb(a, b, k, carry) ==
  LMulTerm(a, b, 1, k) + LMulTerm(a, b, 2, k) + LMulTerm(a, b, 3, k) + LMulTerm(a, b, 4, k) + carry

\* the limbs acc of a * b and the carry into the next limb, completed to 8 limbs
RECURSIVE LMulFrom(_, _, _, _)
LMulFrom(a, b, carry, acc) ==
  IF Len(acc) >= 8 THEN acc
  ELSE LMulFrom(a, b, LMulLimb(a, b, Len(acc) + 1, carry) \div LimbBase,
                Append(acc, LMulLimb(a, b, Len(acc) + 1, carry) % LimbBase))

\* product of two 4-limb numbers, 8 limbs
LMul(a, b) == LMulFrom(a, b, 0, <<>>)

\* the limbs acc of a * d and the carry into the next limb, completed
RECURSIVE LMulSmallFrom(_, _, _, _)
LMulSmallFrom(a, d, carry, acc) ==
  IF Len(acc) >= Len(a) THEN Append(acc, carry)
  ELSE LMulSmallFrom(a, d, (a[Len(acc) + 1] * d + carry) \div LimbBase,
                     Append(acc, (a[Len(acc) + 1] * d + carry) % LimbBase))

\* a * d for one limb d
LMulSmall(a, d) == LMulSmallFrom(a, d, 0, <<>>)

LFromInt(n) == <<n % LimbBase, (n \div LimbBase) % LimbBase, n \div (LimbBase * LimbBase), 0>>

LToInt(a) == a[1] + a[2] * LimbBase + a[3] * LimbBase * LimbBase

\* <<q', R - q' * b>> for the largest q' <= q with q' * b <= R
RECURSIVE DivFix(_, _, _)
DivFix(R, b, q) ==
  IF LCmp(LMulSmall(b, q), R) <= 0 THEN <<q, LSub(R, LMulSmall(b, q))>>
  ELSE DivFix(R, b, q - 1)

\* one limb of long division, for r < b and a top limb of b of at least LimbBase / 2:
\* <<floor(r * LimbBase / b), the remainder>>, from an estimate that is never too small
DivDigit(r, b) ==
  DivFix(<<0>> \o r, b, Min2((LimbAt(r, 4) * LimbBase + r[3]) \div b[4], LimbBase - 1))

\* the limbs q of the quotient so far and the remainder r, carried on until the
\* quotient has n limbs: <<the quotient, the last remainder>>
RECURSIVE DivLoop(_, _, _, _)
DivStep(d, b, n, q) == DivLoop(d[2], b, n, <<d[1]>> \o q)
DivLoop(r, b, n, q) == IF Len(q) >= n THEN <<q, r>> ELSE DivStep(DivDigit(r, b), b, n, q)

(***************************************************************************)
(* Numbers.                                                                *)
(***************************************************************************)
NaN == [k |-> "nan", s |-> 1, m |-> <<0, 0, 0, 0>>, e |-> 0]
Infinity(s) == [k |-> "inf", s |-> s, m |-> <<0, 0, 0, 0>>, e |-> 0]
Zero == [k |-> "num", s |-> 1, m |-> <<0, 0, 0, 0>>, e |-> 0]
One == [k |-> "num", s |-> 1, m |-> <<0, 0, 0, 1024>>, e |-> -52]

IsZero(x) == x.k = "num" /\ LIsZero(x.m)

\* s * m * 2^e for a significand m of SigBits bits
Pack(s, m, e) ==
  IF e + SigBits - 1 > MaxExp THEN Infinity(s)
  ELSE IF e + SigBits - 1 < 0 - MinExp THEN Zero
  ELSE [k |-> "num", s |-> s, m |-> m, e |-> e]

\* s * (N + f) * 2^e with 0 <= f < 1 and f > 0 iff sticky, rounded to nearest, ties
\* to even: the bits of N below the top SigBits are dropped, and a significand
\* that is rounded up is packed again, since the carry can add a bit
RECURSIVE RoundPack(_, _, _, _)
RoundTo(s, q, e, up) == IF up THEN RoundPack(s, LAdd(q, <<1>>), e, FALSE) ELSE Pack(s, q, e)
RoundAt(s, N, e, sticky, sh) ==
  RoundTo(s, LShr(N, sh, 4), e + sh,
          sh > 0 /\ LBit(N, sh - 1) = 1 /\ (sticky \/ LLowBits(N, sh - 1) \/ LBit(N, sh) = 1))
RoundPack(s, N, e, sticky) ==
  IF LIsZero(N) THEN Zero ELSE RoundAt(s, N, e, sticky, LBitLen(N) - SigBits)

FromInt(n) == RoundPack(IF n < 0 THEN -1 ELSE 1, LFromInt(Abs(n)), 0, FALSE)

Neg(x) == IF x.k = "nan" \/ IsZero(x) THEN x ELSE [x EXCEPT !.s = 0 - x.s]

\* s * X * 2^e + t * Y * 2^e, where c orders X and Y
AddOrdered(s, X, t, Y, e, c) ==
  IF s # t /\ c = 0 THEN Zero
  ELSE RoundPack(IF s = t \/ c > 0 THEN s ELSE t,
                 LAddFrom(IF c > 0 THEN X ELSE Y, IF c > 0 THEN Y ELSE X, s * t, 0, <<>>),
                 e, FALSE)

AddAligned(s, X, t, Y, e) == AddOrdered(s, X, t, Y, e, LCmp(X, Y))

\* x + y for nonzero finite x, y with x.e >= y.e
AddMag(x, y) ==
  IF x.e - y.e > SigBits + 3 THEN x
  ELSE AddAligned(x.s, LShl(x.m, x.e - y.e, 9), y.s, y.m, y.e)

FAdd(x, y) ==
  IF x.k = "nan" \/ y.k = "nan" THEN NaN
  ELSE IF x.k = "inf" THEN (IF y.k = "inf" /\ y.s # x.s THEN NaN ELSE x)
  ELSE IF y.k = "inf" THEN y
  ELSE IF IsZero(x) THEN y
  ELSE IF IsZero(y) THEN x
  ELSE AddMag(IF x.e >= y.e THEN x ELSE y, IF x.e >= y.e THEN y ELSE x)

FSub(x, y) == FAdd(x, Neg(y))

FMul(x, y) ==
  IF x.k = "nan" \/ y.k = "nan" THEN NaN
  ELSE IF x.k = "inf" \/ y.k = "inf"
       THEN (IF IsZero(x) \/ IsZero(y) THEN NaN ELSE Infinity(x.s * y.s))
  ELSE IF IsZero(x) \/ IsZero(y) THEN Zero
  ELSE RoundPack(x.s * y.s, LMul(x.m, y.m), x.e + y.e, FALSE)

\* the quotient qr[1] with remainder qr[2], as a Number
DivRound(s, qr, e) == RoundPack(s, qr[1], e, ~LIsZero(qr[2]))

FDiv(x, y) ==
  IF x.k = "nan" \/ y.k = "nan" THEN NaN
  ELSE IF x.k = "inf" THEN (IF y.k = "inf" THEN NaN ELSE Infinity(x.s * y.s))
  ELSE IF y.k = "inf" THEN Zero
  ELSE IF IsZero(y) THEN (IF IsZero(x) THEN NaN ELSE Infinity(x.s * y.s))
  ELSE IF IsZero(x) THEN Zero
  ELSE DivRound(x.s * y.s, DivLoop(x.m, LShl(y.m, 3, 4), 5, <<>>),
                x.e - y.e + 3 - 5 * LimbBits)

\* -1, 0, 1: order of the magnitudes of two finite values
MagCmp(x, y) ==
  IF IsZero(x) THEN (IF IsZero(y) THEN 0 ELSE -1)
  ELSE IF IsZero(y) THEN 1
  ELSE IF x.e > y.e THEN 1
  ELSE IF x.e < y.e THEN -1
  ELSE LCmp(x.m, y.m)

SignOf(x) == IF IsZero(x) THEN 0 ELSE x.s

\* -1, 0, 1: order of two values, neither NaN
NumCmp(x, y) ==
  IF x.k = "inf" THEN (IF y.k = "inf" /\ y.s = x.s THEN 0 ELSE x.s)
  ELSE IF y.k = "inf" THEN 0 - y.s
  ELSE IF SignOf(x) # SignOf(y) THEN (IF SignOf(x) > SignOf(y) THEN 1 ELSE -1)
  ELSE SignOf(x) * MagCmp(x, y)

FLt(x, y) == x.k # "nan" /\ y.k # "nan" /\ NumCmp(x, y) < 0
FLe(x, y) == x.k # "nan" /\ y.k # "nan" /\ NumCmp(x, y) <= 0
FGe(x, y) == FLe(y, x)

\* the integer part of |x| for a finite x with x.e < 0, and whether a fraction is left
IntPart(x) == LShr(x.m, 0 - x.e, 4)
HasFrac(x) == x.k = "num" /\ x.e < 0 /\ (0 - x.e > SigBits \/ LLowBits(x.m, 0 - x.e))
IsInteger(x) == x.k = "num" /\ ~HasFrac(x)

\* Math.floor
FFloor(x) ==
  IF x.k # "num" \/ x.e >= 0 THEN x
  ELSE RoundPack(x.s, LAdd(IntPart(x), <<IF x.s < 0 /\ HasFrac(x) THEN 1 ELSE 0>>), 0, FALSE)

\* is the fraction of |x| at least a half (for x > 0), more than a half (for x < 0)
RoundsUp(x, t) ==
  t <= SigBits /\ LBit(x.m, t - 1) = 1 /\ (x.s > 0 \/ LLowBits(x.m, t - 1))

\* Math.round: the nearest integer, a tie towards +Infinity
FRound(x) ==
  IF x.k # "num" \/ x.e >= 0 THEN x
  ELSE RoundPack(x.s, LAdd(IntPart(x), <<IF RoundsUp(x, 0 - x.e) THEN 1 ELSE 0>>), 0, FALSE)

\* Math.max of two values
FMax(x, y) == IF x.k = "nan" \/ y.k = "nan" THEN NaN ELSE IF FGe(x, y) THEN x ELSE y

\* the value of an integer-valued x below 2^31 in magnitude, as an integer
FitsInt(x) == IsInteger(x) /\ (IsZero(x) \/ x.e + SigBits <= 31)
ToInt(x) == IF IsZero(x) THEN 0 ELSE x.s * LToInt(IntPart(x))

\* x * 2^n
Scale(x, n) == IF x.k # "num" \/ IsZero(x) THEN x ELSE Pack(x.s, x.m, x.e + n)

(***************************************************************************)
(* Math.pow.                                                               *)
(***************************************************************************)
\* acc * b^n for an integer n >= 0, by binary exponentiation
RECURSIVE PowLoop(_, _, _)
PowLoop(b, n, acc) ==
  IF n = 0 THEN acc
  ELSE IF b.k = "nan" \/ acc.k = "nan" THEN NaN
  ELSE PowLoop(FMul(b, b), n \div 2, IF n % 2 = 1 THEN FMul(acc, b) ELSE acc)

\* the double nearest to ln 2
LN2 == [k |-> "num", s |-> 1, m |-> <<14831, 15336, 9263, 1419>>, e |-> -53]

\* A series is summed until a term no longer changes the sum.  Its state is the
\* index j of the next term, the power p that term is made of, the sum so far and
\* whether the sum is final.  The terms are added in runs of n, 2n, 4n, ...,
\* each run split in halves, so the evaluation nests only a few levels deep.

\* z + z^3/3 + z^5/5 + ...: the next term, for z2 = z^2
LnNext(z2, st, next) ==
  IF next = st.sum THEN [st EXCEPT !.done = TRUE]
  ELSE [j |-> st.j + 1, p |-> FMul(st.p, z2), sum |-> next, done |-> FALSE]

LnTerm(z2, st) == LnNext(z2, st, FAdd(st.sum, FDiv(st.p, FromInt(2 * st.j + 1))))

RECURSIVE LnTerms(_, _, _)
LnTerms(z2, n, st) ==
  IF st.done \/ n = 0 THEN st
  ELSE IF n = 1 THEN LnTerm(z2, st)
  ELSE LnTerms(z2, n - n \div 2, LnTerms(z2, n \div 2, st))

RECURSIVE LnSeries(_, _, _)
LnSeries(z2, n, st) == IF st.done THEN st.sum ELSE LnSeries(z2, 2 * n, LnTerms(z2, n, st))

\* k ln 2 + 2 atanh z
LnSum(k, z) ==
  FAdd(FMul(FromInt(k), LN2),
       FMul(FromInt(2), LnSeries(FMul(z, z), 4, [j |-> 0, p |-> z, sum |-> Zero, done |-> FALSE])))

\* ln (f * 2^k) for 3/4 <= f < 3/2
LnScaled(f, k) == LnSum(k, FDiv(FSub(f, One), FAdd(f, One)))

\* ln x for a positive finite x
Ln(x) ==
  LET big == x.m[4] >= 3 * Pow2(SigBits - 3 * LimbBits - 2)
  IN LnScaled([x EXCEPT !.e = IF big THEN 0 - SigBits ELSE 1 - SigBits],
              IF big THEN x.e + SigBits ELSE x.e + SigBits - 1)

\* 1 + r + r^2/2! + ...: the next term
ExpNext(r, st, next) ==
  IF next = st.sum THEN [st EXCEPT !.done = TRUE]
  ELSE [j |-> st.j + 1, p |-> FDiv(FMul(st.p, r), FromInt(st.j + 1)), sum |-> next,
        done |-> FALSE]

ExpTerm(r, st) == ExpNext(r, st, FAdd(st.sum, st.p))

RECURSIVE ExpTerms(_, _, _)
ExpTerms(r, n, st) ==
  IF st.done \/ n = 0 THEN st
  ELSE IF n = 1 THEN ExpTerm(r, st)
  ELSE ExpTerms(r, n - n \div 2, ExpTerms(r, n \div 2, st))

RECURSIVE ExpSeries(_, _, _)
ExpSeries(r, n, st) == IF st.done THEN st.sum ELSE ExpSeries(r, 2 * n, ExpTerms(r, n, st))

\* e^r * 2^n
ExpSum(r, n) == Scale(ExpSeries(r, 4, [j |-> 1, p |-> r, sum |-> One, done |-> FALSE]), n)

\* e^t for q the integer nearest to t / ln 2
ExpReduced(t, q) ==
  IF ~FitsInt(q) THEN (IF t.s > 0 THEN Infinity(1) ELSE Zero)
  ELSE ExpSum(FSub(t, FMul(q, LN2)), ToInt(q))

\* e^t, for a finite t as e^(t - n ln 2) * 2^n
Exp(t) ==
  IF t.k = "nan" THEN NaN
  ELSE IF t.k = "inf" THEN (IF t.s > 0 THEN t ELSE Zero)
  ELSE ExpReduced(t, FRound(FDiv(t, LN2)))

\* is the integer-valued finite y odd
IsOdd(y) == ~IsZero(y) /\ y.e <= 0 /\ 0 - y.e < SigBits /\ LBit(y.m, 0 - y.e) = 1

\* is |x| above (1), equal to (0) or below (-1) one
UnitCmp(x) == MagCmp([x EXCEPT !.k = "num", !.s = 1], One)

\* Math.pow where an argument is NaN, an infinity or zero
PowSpecial(x, y) ==
  IF y.k = "nan" THEN NaN
  ELSE IF IsZero(y) THEN One
  ELSE IF x.k = "nan" THEN NaN
  ELSE IF y.k = "inf"
       THEN IF x.k = "inf" \/ UnitCmp(x) > 0 THEN (IF y.s > 0 THEN Infinity(1) ELSE Zero)
            ELSE IF UnitCmp(x) = 0 THEN NaN
            ELSE (IF y.s > 0 THEN Zero ELSE Infinity(1))
  ELSE IF x.k = "inf"
       THEN IF y.s < 0 THEN Zero
            ELSE IF x.s < 0 /\ IsInteger(y) /\ IsOdd(y) THEN Infinity(-1) ELSE Infinity(1)
  ELSE (IF y.s > 0 THEN Zero ELSE Infinity(1))

\* Math.pow
RECURSIVE Pow(_, _)
Pow(x, y) ==
  IF x.k # "num" \/ y.k # "num" \/ IsZero(x) \/ IsZero(y) THEN PowSpecial(x, y)
  ELSE IF FitsInt(y)
       THEN (IF y.s > 0 THEN PowLoop(x, ToInt(y), One) ELSE FDiv(One, Pow(x, Neg(y))))
  ELSE IF IsInteger(y)
       THEN IF UnitCmp(x) = 0 THEN One
            ELSE IF (UnitCmp(x) > 0) = (y.s > 0) THEN Infinity(1) ELSE Zero
  ELSE IF x.s < 0 THEN NaN
  ELSE Exp(FMul(y, Ln(x)))

(***************************************************************************)
(* Values the program handles besides Numbers, and its literals.           *)
(***************************************************************************)
\* the Number a decimal literal n/d denotes (1.5 is Dec(15, 10))
Dec(n, d) == FDiv(FromInt(n), FromInt(d))

\* an optional field that was never set
Undefined == [k |-> "undefined"]

\* the truthiness test of `if (x)` and `x || d`: undefined, 0 and NaN are falsy
Truthy(x) == x.k # "undefined" /\ x.k # "nan" /\ ~IsZero(x)

SP500_INTEREST == FromInt(10)
SavingsAboveBonds == FromInt(5)
SAVINGS_INTEREST == Dec(15, 10)
BONDS_INTEREST == Dec(45, 10)
INFLATION_RATE == FromInt(3)
BEST_YEAR == FromInt(37)
WORST_YEAR == FromInt(-37)

\* the horizon of the milestone search, in months
MaxMonths == 1200

(***************************************************************************)
(* The calculation engine.                                                 *)
(***************************************************************************)
\* `const monthlyRate = annualRate / 100 / 12`
monthlyRateOfFraction(annualRate) == FDiv(annualRate, FromInt(12))
monthlyRate(annualRate) == FDiv(FDiv(annualRate, FromInt(100)), FromInt(12))

\* Math.pow(1 + monthlyRate, months); the source writes it twice with the same
\* arguments, and it is a pure function, so it is computed once here
growth(rate, months) == Pow(FAdd(One, rate), months)

fvPrincipal(principal, factor) == FMul(principal, factor)

fvContributions(monthlyContribution, factor, rate) ==
  FMul(monthlyContribution, FDiv(FSub(factor, One), rate))

\* `return fvPrincipal + fvContributions`
FutureValueOf(principal, monthlyContribution, rate, factor) ==
  FAdd(fvPrincipal(principal, factor), fvContributions(monthlyContribution, factor, rate))

FutureValueAt(principal, monthlyContribution, rate, months) ==
  FutureValueOf(principal, monthlyContribution, rate, growth(rate, months))

calculateFutureValue(principal, monthlyContribution, annualRate, months) ==
  FutureValueAt(principal, monthlyContribution, monthlyRate(annualRate), months)

\* `(targetAmount - fvContributions) / Math.pow(1 + monthlyRate, months)`
RequiredOf(targetAmount, monthlyContribution, rate, factor) ==
  FDiv(FSub(targetAmount, fvContributions(monthlyContribution, factor, rate)), factor)

RequiredAt(targetAmount, monthlyContribution, rate, months) ==
  RequiredOf(targetAmount, monthlyContribution, rate, growth(rate, months))

\* the local requiredPrincipal of calculateRequiredInvestment, before the clamp
requiredPrincipal(targetAmount, monthlyContribution, annualRate, months) ==
  RequiredAt(targetAmount, monthlyContribution, monthlyRate(annualRate), months)

calculateRequiredInvestment(targetAmount, monthlyContribution, annualRate, months) ==
  FMax(Zero, requiredPrincipal(targetAmount, monthlyContribution, annualRate, months))

\* the loop condition `month <= months` of calculateProjections
LoopExcludesLast(month, months) == FLt(FromInt(month), months)
LoopContinues(month, months) == FLe(FromInt(month), months)

\* the year field, Math.floor(month / 12)
YearNearest(month) == ToInt(FRound(FDiv(FromInt(month), FromInt(12))))
YearOf(month) == ToInt(FFloor(FDiv(FromInt(month), FromInt(12))))

\* `Math.pow(1 + INFLATION_RATE / 100, month / 12)`
DeflatorOfDeflation(month) ==
  Pow(FSub(One, FDiv(INFLATION_RATE, FromInt(100))), FDiv(FromInt(month), FromInt(12)))
Deflator(month) ==
  Pow(FAdd(One, FDiv(INFLATION_RATE, FromInt(100))), FDiv(FromInt(month), FromInt(12)))

\* the object pushed for a month, from the values of its consts
MonthData(month, balance, contributions, savingsAccount, bonds, bestCase, worstCase) ==
  [month             |-> month,
   year              |-> YearOf(month),
   balance           |-> FRound(balance),
   contributions     |-> FRound(contributions),
   gains             |-> FRound(FSub(balance, contributions)),
   inflationAdjusted |-> FRound(FDiv(balance, Deflator(month))),
   savingsAccount    |-> FRound(savingsAccount),
   bonds             |-> FRound(bonds),
   bestCase          |-> FRound(bestCase),
   worstCase         |-> FRound(worstCase)]

\* one iteration of the loop of calculateProjections, for the Number m of month
MonthAt(initialInvestment, monthlyContribution, annualRate, month, m) ==
  MonthData(month,
            calculateFutureValue(initialInvestment, monthlyContribution, annualRate, m),
            FAdd(initialInvestment, FMul(monthlyContribution, m)),
            calculateFutureValue(initialInvestment, monthlyContribution, SAVINGS_INTEREST, m),
            calculateFutureValue(initialInvestment, monthlyContribution, BONDS_INTEREST, m),
            calculateFutureValue(initialInvestment, monthlyContribution, BEST_YEAR, m),
            calculateFutureValue(initialInvestment, monthlyContribution, WORST_YEAR, m))

\* the MonthData pushed by one iteration of the loop of calculateProjections
MonthPointAhead(initialInvestment, monthlyContribution, annualRate, month) ==
  MonthAt(initialInvestment, monthlyContribution, annualRate, month, FromInt(month + 1))
MonthPoint(initialInvestment, monthlyContribution, annualRate, month) ==
  MonthAt(initialInvestment, monthlyContribution, annualRate, month, FromInt(month))

\* `Math.floor((low + high) / 2)`
Mid(lh) == (lh[1] + lh[2]) \div 2

\* one iteration of the while loop of calculateYearsToMilestone on <<low, high>>
BisectStepReversed(lh, currentBalance, monthlyContribution, annualRate, targetAmount) ==
  IF FLt(calculateFutureValue(currentBalance, monthlyContribution, annualRate,
                              FromInt(Mid(lh))), targetAmount)
  THEN <<lh[1], Mid(lh)>>
  ELSE <<Mid(lh) + 1, lh[2]>>
BisectStepKeepsMid(lh, currentBalance, monthlyContribution, annualRate, targetAmount) ==
  IF FLt(calculateFutureValue(currentBalance, monthlyContribution, annualRate,
                              FromInt(Mid(lh))), targetAmount)
  THEN <<Mid(lh), lh[2]>>
  ELSE <<lh[1], Mid(lh)>>
BisectStep(lh, currentBalance, monthlyContribution, annualRate, targetAmount) ==
  IF FLt(calculateFutureValue(currentBalance, monthlyContribution, annualRate,
                              FromInt(Mid(lh))), targetAmount)
  THEN <<Mid(lh) + 1, lh[2]>>
  ELSE <<lh[1], Mid(lh)>>

\* the while loop run to its end: the final low
RECURSIVE Bisect(_, _, _, _, _)
Bisect(lh, currentBalance, monthlyContribution, annualRate, targetAmount) ==
  IF lh[1] < lh[2]
  THEN Bisect(BisectStep(lh, currentBalance, monthlyContribution, annualRate, targetAmount),
              currentBalance, monthlyContribution, annualRate, targetAmount)
  ELSE lh[1]

calculateYearsToMilestone(currentBalance, monthlyContribution, annualRate, targetAmount) ==
  IF FGe(currentBalance, targetAmount) THEN Zero
  ELSE FDiv(FromInt(Bisect(<<0, MaxMonths>>, currentBalance, monthlyContribution,
                           annualRate, targetAmount)), FromInt(12))

\* The required-rate loop `for (let rate = 0; rate <= 50; rate += 0.1)`.  Its state
\* is the rate reached, whether a rate was found, the evaluations made, and whether
\* the loop has ended.  The iterations are taken in runs of n, 2n, 4n, ..., each run
\* split in halves, so the evaluation nests only a few levels deep.
ScanStep(st, initialInvestment, monthlyContribution, months, targetBalance) ==
  IF ~FLe(st.rate, FromInt(50)) THEN [st EXCEPT !.done = TRUE]
  ELSE IF FGe(calculateFutureValue(initialInvestment, monthlyContribution, st.rate, months),
              targetBalance)
       THEN [st EXCEPT !.found = TRUE, !.evals = st.evals + 1, !.done = TRUE]
  ELSE [st EXCEPT !.rate = FAdd(st.rate, Dec(1, 10)), !.evals = st.evals + 1]

RECURSIVE ScanRun(_, _, _, _, _, _)
ScanRun(n, st, initialInvestment, monthlyContribution, months, targetBalance) ==
  IF st.done \/ n = 0 THEN st
  ELSE IF n = 1
       THEN ScanStep(st, initialInvestment, monthlyContribution, months, targetBalance)
  ELSE ScanRun(n - n \div 2,
               ScanRun(n \div 2, st, initialInvestment, monthlyContribution, months,
                       targetBalance),
               initialInvestment, monthlyContribution, months, targetBalance)

RECURSIVE ScanFrom(_, _, _, _, _, _)
ScanFrom(n, st, initialInvestment, monthlyContribution, months, targetBalance) ==
  IF st.done THEN st
  ELSE ScanFrom(2 * n,
                ScanRun(n, st, initialInvestment, monthlyContribution, months, targetBalance),
                initialInvestment, monthlyContribution, months, targetBalance)

\* `let requiredRate = 0` and `let rate = 0`: the loop before its first iteration
ScanStart == [rate |-> Zero, found |-> FALSE, evals |-> 0, done |-> FALSE]

\* `const targetBalance = (targetMonthlyIncome * 12) / 0.04`
targetBalance(targetMonthlyIncome) == FDiv(FMul(targetMonthlyIncome, FromInt(12)), Dec(4, 100))

\* `requiredRate = rate` of the iteration that breaks; 0 when none does
FoundRate(st) == IF st.found THEN st.rate ELSE Zero

\* the variable requiredRate at the end of the loop
requiredRate(initialInvestment, monthlyContribution, months, targetMonthlyIncome) ==
  IF Truthy(targetMonthlyIncome)
  THEN FoundRate(ScanFrom(8, ScanStart,
                          initialInvestment, monthlyContribution, months,
                          targetBalance(targetMonthlyIncome)))
  ELSE Zero

\* `(finalMonth.balance * 0.04) / 12`
monthlyIncomeOfGains(finalMonth) == FDiv(FMul(finalMonth.gains, Dec(4, 100)), FromInt(12))
monthlyIncome(finalMonth) == FDiv(FMul(finalMonth.balance, Dec(4, 100)), FromInt(12))

\* Math.round(x * 10) / 10
RoundTenth(x) == FDiv(FRound(FMul(x, FromInt(10))), FromInt(10))

\* BigPictureCard, Years to $1M: `metrics.yearsTo1M < 100 ? `${...} yr` : 'N/A'`
ShowsYears(years) == FLt(years, FromInt(100))

\* projections[projections.length - 1] is undefined for an empty series, and
\* reading finalMonth.balance then throws a TypeError
MetricsThrows(projections) == Len(projections) = 0

\* the object calculateInvestmentMetrics returns, for finalMonth and projections.length
MetricsOf(finalMonth, length, initialInvestment, monthlyContribution, annualRate, targetMonthlyIncome) ==
  [finalBalance             |-> FRound(finalMonth.balance),
   totalContributions       |-> FRound(finalMonth.contributions),
   totalGains               |-> FRound(finalMonth.gains),
   inflationAdjustedValue   |-> FRound(finalMonth.inflationAdjusted),
   monthlyIncome            |-> FRound(monthlyIncome(finalMonth)),
   yearsTo1M                |-> RoundTenth(calculateYearsToMilestone(
                                  initialInvestment, monthlyContribution, annualRate,
                                  FromInt(1000000))),
   yearsTo2M                |-> RoundTenth(calculateYearsToMilestone(
                                  initialInvestment, monthlyContribution, annualRate,
                                  FromInt(2000000))),
   yearsTo5M                |-> RoundTenth(calculateYearsToMilestone(
                                  initialInvestment, monthlyContribution, annualRate,
                                  FromInt(5000000))),
   vsSavings                |-> FRound(FSub(finalMonth.balance, finalMonth.savingsAccount)),
   vsBonds                  |-> FRound(FSub(finalMonth.balance, finalMonth.bonds)),
   requiredRate             |-> RoundTenth(requiredRate(initialInvestment, monthlyContribution,
                                                        length, targetMonthlyIncome)),
   withdrawalSustainability |-> FromInt(25)]

\* calculateInvestmentMetrics on a non-empty series
calculateInvestmentMetricsOfFirst(projections, initialInvestment, monthlyContribution, annualRate, targetMonthlyIncome) ==
  MetricsOf(projections[1], FromInt(Len(projections)), initialInvestment, monthlyContribution, annualRate, targetMonthlyIncome)
calculateInvestmentMetrics(projections, initialInvestment, monthlyContribution, annualRate, targetMonthlyIncome) ==
  MetricsOf(projections[Len(projections)], FromInt(Len(projections)), initialInvestment, monthlyContribution, annualRate, targetMonthlyIncome)

(***************************************************************************)
(* A caller of the engine.  It invokes one engine function at a time with  *)
(* arguments from small sets; the two loops of the engine (the projection  *)
(* loop and the milestone bisection) advance one iteration per step.       *)
(*   pc       where the caller is: "idle", inside a loop, or "returned"    *)
(*   call     the function invoked and its arguments                       *)
(*   ret      the Number returned by the last scalar call                  *)
(*   low, high, evals   the bisection bounds and the evaluations it made   *)
(*   month, data        the loop counter and the series of the projection  *)
(*   metrics, threw     the result of calculateInvestmentMetrics           *)
(*   history  the projections returned so far, with their arguments        *)
(*   scan     the required-rate loop: its rate, whether it found one, the   *)
(*            evaluations it made, whether it has ended                     *)
(***************************************************************************)
VARIABLES pc, call, ret, low, high, evals, month, data, metrics, threw, history, scan,
          state, shown, pending

\* the component InvestmentCalculator: its state, the series it shows and whether
\* its effect has yet to run for the current state
ui == <<state, shown, pending>>

vars == <<pc, call, ret, low, high, evals, month, data, metrics, threw, history, scan, ui>>

\* bounds of the explored inputs
MaxPeriods == 12
MaxCalls == 3

\* a rate or a number of years as a decimal literal <<numerator, denominator>>
Lit(q) == Dec(q[1], q[2])

Principals == {0, 1000, 10000}
Contributions == {0, 100, 500}
Rates == {<<0, 1>>, <<10, 1>>, <<15, 10>>, <<-37, 1>>}
Targets == {1000, 100000}
MilestoneBalances == {0, 10000, 1000000}
MilestoneContributions == {0, 1000}
MilestoneRates == {<<0, 1>>, <<10, 1>>, <<-37, 1>>}
MilestoneTargets == {1000000, 5000000}
ProjectionPrincipals == {10000}
ProjectionContributions == {0, 500}
ProjectionRates == {<<0, 1>>, <<10, 1>>, <<-37, 1>>}
ProjectionYears == {<<-1, 1>>, <<1, 10>>, <<1, 4>>, <<1, 1>>, <<2, 1>>}
TargetIncomes == {Undefined}
RepeatRates == {<<0, 1>>, <<10, 1>>}
RepeatYears == {<<1, 10>>, <<1, 4>>}

NoCall == [fn |-> "none"]
\* the metrics InvestmentCalculator holds before any were computed
\* the initial value of useState<CalculatorState>
InitialState ==
  [mode |-> "investment", initialInvestment |-> FromInt(10000),
   monthlyContribution |-> FromInt(500), investmentYears |-> FromInt(30),
   targetMonthlyIncome |-> Undefined, targetYears |-> Undefined,
   useCustomRate |-> FALSE, customInterestRate |-> SP500_INTEREST]

InitialMetrics ==
  [finalBalance             |-> Zero,
   totalContributions       |-> Zero,
   totalGains               |-> Zero,
   inflationAdjustedValue   |-> Zero,
   monthlyIncome            |-> Zero,
   yearsTo1M                |-> Zero,
   yearsTo2M                |-> Zero,
   yearsTo5M                |-> Zero,
   vsSavings                |-> Zero,
   vsBonds                  |-> Zero,
   requiredRate             |-> Zero,
   withdrawalSustainability |-> FromInt(25)]

Init ==
  /\ pc = "idle"
  /\ call = NoCall
  /\ ret = Zero
  /\ low = 0
  /\ high = 0
  /\ evals = 0
  /\ month = 0
  /\ data = <<>>
  /\ metrics = InitialMetrics
  /\ threw = FALSE
  /\ history = <<>>
  /\ scan = ScanStart
  /\ state = InitialState
  /\ shown = <<>>
  /\ pending = TRUE

CallFutureValue ==
  /\ pc = "idle"
  /\ \E p \in Principals, c \in Contributions, r \in Rates, n \in 0..MaxPeriods :
       /\ call' = [fn |-> "calculateFutureValue", principal |-> p,
                   monthlyContribution |-> c, annualRate |-> r, months |-> n]
       /\ ret' = calculateFutureValue(FromInt(p), FromInt(c), Lit(r), FromInt(n))
  /\ pc' = "returned"
  /\ UNCHANGED <<low, high, evals, month, data, metrics, threw, history, scan, ui>>

CallRequiredInvestment ==
  /\ pc = "idle"
  /\ \E t \in Targets, c \in Contributions, r \in Rates, n \in 0..MaxPeriods :
       /\ call' = [fn |-> "calculateRequiredInvestment", targetAmount |-> t,
                   monthlyContribution |-> c, annualRate |-> r, months |-> n]
       /\ ret' = calculateRequiredInvestment(FromInt(t), FromInt(c), Lit(r), FromInt(n))
  /\ pc' = "returned"
  /\ UNCHANGED <<low, high, evals, month, data, metrics, threw, history, scan, ui>>

\* calculateYearsToMilestone up to its loop: the early return, or low = 0, high = 1200
MilestoneCall ==
  /\ pc = "idle"
  /\ \E b \in MilestoneBalances, c \in MilestoneContributions, r \in MilestoneRates,
        t \in MilestoneTargets :
       /\ call' = [fn |-> "calculateYearsToMilestone", currentBalance |-> b,
                   monthlyContribution |-> c, annualRate |-> r, targetAmount |-> t]
       /\ IF FGe(FromInt(b), FromInt(t))
          THEN pc' = "returned" /\ ret' = Zero /\ UNCHANGED <<low, high>>
          ELSE pc' = "bisect" /\ low' = 0 /\ high' = MaxMonths /\ UNCHANGED ret
  /\ UNCHANGED <<evals, month, data, metrics, threw, history, scan, ui>>

MilestoneStep ==
  /\ pc = "bisect"
  /\ low < high
  /\ LET lh == BisectStep(<<low, high>>, FromInt(call.currentBalance),
                          FromInt(call.monthlyContribution), Lit(call.annualRate),
                          FromInt(call.targetAmount))
     IN low' = lh[1] /\ high' = lh[2]
  /\ evals' = evals + 1
  /\ UNCHANGED <<pc, call, ret, month, data, metrics, threw, history, scan, ui>>

MilestoneReturn ==
  /\ pc = "bisect"
  /\ ~(low < high)
  /\ ret' = FDiv(FromInt(low), FromInt(12))
  /\ pc' = "returned"
  /\ UNCHANGED <<call, low, high, evals, month, data, metrics, threw, history, scan, ui>>

\* `const data: MonthData[] = []`: every call starts from a new, empty array
StaleData == data
FreshData == <<>>

\* `const months = years * 12`
MonthsOf(years) == FMul(Lit(years), FromInt(12))

\* calculateProjections up to its loop
ProjectCallWith(p, c, r, y) ==
  /\ pc = "idle"
  /\ call' = [fn |-> "calculateProjections", initialInvestment |-> p,
              monthlyContribution |-> c, annualRate |-> r, years |-> y]
  /\ data' = FreshData
  /\ month' = 1
  /\ pc' = "loop"
  /\ UNCHANGED <<ret, low, high, evals, metrics, threw, history, scan, ui>>

ProjectCall ==
  \E p \in ProjectionPrincipals, c \in ProjectionContributions, r \in ProjectionRates,
     y \in ProjectionYears : ProjectCallWith(p, c, r, y)

\* one iteration of the for loop
ProjectStep ==
  /\ pc = "loop"
  /\ LoopContinues(month, MonthsOf(call.years))
  /\ data' = Append(data, MonthPoint(FromInt(call.initialInvestment),
                                     FromInt(call.monthlyContribution),
                                     Lit(call.annualRate), month))
  /\ month' = month + 1
  /\ UNCHANGED <<pc, call, ret, low, high, evals, metrics, threw, history, scan, ui>>

\* `return data`
ProjectReturn ==
  /\ pc = "loop"
  /\ ~LoopContinues(month, MonthsOf(call.years))
  /\ pc' = "projected"
  /\ UNCHANGED <<call, ret, low, high, evals, month, data, metrics, threw, history, scan, ui>>

\* the caller hands the returned series to calculateInvestmentMetrics, with the
\* arguments of the projection, as the effect of InvestmentCalculator does
MetricsCall ==
  /\ pc = "projected"
  /\ \E t \in TargetIncomes :
       /\ call' = [call EXCEPT !.fn = "calculateInvestmentMetrics"]
       /\ IF MetricsThrows(data)
          THEN threw' = TRUE /\ UNCHANGED metrics
          ELSE /\ metrics' = calculateInvestmentMetrics(
                               data, FromInt(call.initialInvestment),
                               FromInt(call.monthlyContribution), Lit(call.annualRate), t)
               /\ UNCHANGED threw
  /\ pc' = "returned"
  /\ UNCHANGED <<ret, low, high, evals, month, data, history, scan, ui>>

\* the caller goes on to its next call
Resume ==
  /\ pc = "returned"
  /\ pc' = "idle"
  /\ call' = NoCall
  /\ ret' = Zero
  /\ low' = 0
  /\ high' = 0
  /\ evals' = 0
  /\ month' = 0
  /\ data' = <<>>
  /\ metrics' = InitialMetrics
  /\ threw' = FALSE
  /\ scan' = ScanStart
  /\ UNCHANGED <<history, ui>>

Next ==
  \/ CallFutureValue
  \/ CallRequiredInvestment
  \/ MilestoneCall
  \/ MilestoneStep
  \/ MilestoneReturn
  \/ ProjectCall
  \/ ProjectStep
  \/ ProjectReturn
  \/ MetricsCall
  \/ Resume

Spec == Init /\ [][Next]_vars

(***************************************************************************)
(* A caller that only projects, up to MaxCalls times, and keeps every      *)
(* returned series with the arguments that produced it.                    *)
(***************************************************************************)
RepeatCall ==
  /\ Len(history) < MaxCalls
  /\ \E r \in RepeatRates, y \in RepeatYears : ProjectCallWith(10000, 500, r, y)

RepeatReturn ==
  /\ pc = "loop"
  /\ ~LoopContinues(month, MonthsOf(call.years))
  /\ history' = Append(history, [args |-> call, series |-> data])
  /\ pc' = "idle"
  /\ UNCHANGED <<call, ret, low, high, evals, month, data, metrics, threw, scan, ui>>

NextRepeat ==
  \/ RepeatCall
  \/ ProjectStep
  \/ RepeatReturn

SpecRepeat == Init /\ [][NextRepeat]_vars

(***************************************************************************)
(* The required-rate loop of calculateInvestmentMetrics, one iteration per *)
(* step: the caller passes a series of `length` points and a target        *)
(* monthly income, and reads the requiredRate of the returned metrics.     *)
(***************************************************************************)
ScanPrincipals == {10000}
ScanContributions == {0, 500}
ScanLengths == {12}
ScanTargets == {Undefined, Zero, FromInt(10), FromInt(40), Dec(544, 10), FromInt(1000)}

\* `let requiredRate = 0; if (targetMonthlyIncome) {`
ScanCall ==
  /\ pc = "idle"
  /\ \E p \in ScanPrincipals, c \in ScanContributions, n \in ScanLengths, t \in ScanTargets :
       /\ call' = [fn |-> "requiredRate", initialInvestment |-> p, monthlyContribution |-> c,
                   length |-> n, targetMonthlyIncome |-> t]
       /\ IF Truthy(t)
          THEN pc' = "scan" /\ UNCHANGED ret
          ELSE pc' = "returned" /\ ret' = RoundTenth(Zero)
  /\ scan' = ScanStart
  /\ UNCHANGED <<low, high, evals, month, data, metrics, threw, history, ui>>

\* one pass of `for (let rate = 0; rate <= 50; rate += 0.1)`: the test of the
\* condition and, when it holds, the body and the increment
ScanIterate ==
  /\ pc = "scan"
  /\ ~scan.done
  /\ scan' = ScanStep(scan, FromInt(call.initialInvestment), FromInt(call.monthlyContribution),
                      FromInt(call.length), targetBalance(call.targetMonthlyIncome))
  /\ UNCHANGED <<pc, call, ret, low, high, evals, month, data, metrics, threw, history, ui>>

\* `requiredRate: Math.round(requiredRate * 10) / 10`
ScanReturn ==
  /\ pc = "scan"
  /\ scan.done
  /\ ret' = RoundTenth(FoundRate(scan))
  /\ pc' = "returned"
  /\ UNCHANGED <<call, low, high, evals, month, data, metrics, threw, history, scan, ui>>

NextScan ==
  \/ ScanCall
  \/ ScanIterate
  \/ ScanReturn

SpecScan == Init /\ [][NextScan]_vars

(***************************************************************************)
(* InsightsCard: the two what-if figures.                                  *)
(***************************************************************************)
\* `const earlyAdvantage = fiveYearsEarlier - metrics.finalBalance`
earlyAdvantage(finalBalance, initialInvestment, monthlyContribution, years) ==
  FSub(calculateFutureValue(initialInvestment, monthlyContribution, SP500_INTEREST,
                            FMul(FAdd(years, FromInt(5)), FromInt(12))),
       finalBalance)

\* `const extraFromContribution = higherContribution - metrics.finalBalance`
extraFromContribution(finalBalance, initialInvestment, monthlyContribution, years) ==
  FSub(calculateFutureValue(initialInvestment, FAdd(monthlyContribution, FromInt(500)),
                            SP500_INTEREST, FMul(years, FromInt(12))),
       finalBalance)

(***************************************************************************)
(* The component InvestmentCalculator: the inputs change its state, and    *)
(* after every change React runs the effect, which recomputes the series   *)
(* and the metrics.  The effect runs to its end before the next input.     *)
(***************************************************************************)
\* `x || d`
OrElse(x, d) == IF Truthy(x) THEN x ELSE d

\* `const rate = state.useCustomRate ? state.customInterestRate : SP500_INTEREST`
RateOf(s) == IF s.useCustomRate THEN s.customInterestRate ELSE SP500_INTEREST

\* the years passed to calculateProjections
YearsOf(s) ==
  IF s.mode = "investment" THEN OrElse(s.investmentYears, FromInt(30))
  ELSE OrElse(s.targetYears, FromInt(30))

\* `const requiredInvestment = calculateRequiredInvestment(...)` of the goal branch
requiredInvestment(s) ==
  calculateRequiredInvestment(targetBalance(OrElse(s.targetMonthlyIncome, Zero)),
                              OrElse(s.monthlyContribution, Zero), RateOf(s),
                              FMul(OrElse(s.targetYears, FromInt(30)), FromInt(12)))

\* the principal passed to calculateProjections and calculateInvestmentMetrics
PrincipalOfInput(s) == OrElse(s.initialInvestment, Zero)
PrincipalOf(s) ==
  IF s.mode = "investment" THEN OrElse(s.initialInvestment, Zero)
  ELSE requiredInvestment(s)

\* the engine functions the effect calls before calculateInvestmentMetrics
CallsOf(s) ==
  IF s.mode = "investment" THEN <<"calculateProjections">>
  ELSE <<"calculateRequiredInvestment", "calculateProjections">>

\* the longest period, in years, of the states the inputs are taken to; the
\* initial state, in either mode, has its 30 years
MaxHorizon == 1

InputInvestments == {FromInt(1000)}
InputContributions == {FromInt(100)}
InputYears == {FromInt(-1), Dec(25, 100)}
InputIncomes == {FromInt(10000)}
InputRates == {Zero, FromInt(15)}

Explored(s) ==
  \/ FLe(YearsOf(s), FromInt(MaxHorizon))
  \/ s = [InitialState EXCEPT !.mode = "goal"]

\* setState({ ...state, field: v }) from an input or a button
SetState(s) ==
  /\ pc = "idle"
  /\ ~pending
  /\ s # state
  /\ Explored(s)
  /\ state' = s
  /\ pending' = TRUE
  /\ UNCHANGED <<pc, call, ret, low, high, evals, month, data, metrics, threw, history,
                 scan, shown>>

SetMode == \E m \in {"investment", "goal"} : SetState([state EXCEPT !.mode = m])

SetInitialInvestment ==
  /\ state.mode = "investment"
  /\ \E v \in InputInvestments : SetState([state EXCEPT !.initialInvestment = v])

SetMonthlyContribution ==
  \E v \in InputContributions : SetState([state EXCEPT !.monthlyContribution = v])

SetInvestmentYears ==
  /\ state.mode = "investment"
  /\ \E v \in InputYears : SetState([state EXCEPT !.investmentYears = v])

SetTargetMonthlyIncome ==
  /\ state.mode = "goal"
  /\ \E v \in InputIncomes : SetState([state EXCEPT !.targetMonthlyIncome = v])

SetTargetYears ==
  /\ state.mode = "goal"
  /\ \E v \in InputYears : SetState([state EXCEPT !.targetYears = v])

SetUseCustomRateResetting ==
  \E b \in BOOLEAN :
    SetState([state EXCEPT !.useCustomRate = b, !.customInterestRate = SP500_INTEREST])
SetUseCustomRate == \E b \in BOOLEAN : SetState([state EXCEPT !.useCustomRate = b])

SetCustomInterestRate ==
  /\ state.useCustomRate
  /\ \E v \in InputRates : SetState([state EXCEPT !.customInterestRate = v])

\* the effect up to the call of calculateProjections
EffectStart ==
  /\ pc = "idle"
  /\ pending
  /\ call' = [fn |-> "useEffect", mode |-> state.mode, calls |-> CallsOf(state),
              initialInvestment |-> PrincipalOf(state),
              monthlyContribution |-> OrElse(state.monthlyContribution, Zero),
              annualRate |-> RateOf(state), years |-> YearsOf(state),
              targetMonthlyIncome |->
                IF state.mode = "goal" THEN state.targetMonthlyIncome ELSE Undefined]
  /\ data' = FreshData
  /\ month' = 1
  /\ pc' = "effect"
  /\ pending' = FALSE
  /\ UNCHANGED <<ret, low, high, evals, metrics, threw, history, scan, state, shown>>

\* one iteration of the for loop of calculateProjections
EffectStep ==
  /\ pc = "effect"
  /\ LoopContinues(month, FMul(call.years, FromInt(12)))
  /\ data' = Append(data, MonthPoint(call.initialInvestment, call.monthlyContribution,
                                     call.annualRate, month))
  /\ month' = month + 1
  /\ UNCHANGED <<pc, call, ret, low, high, evals, metrics, threw, history, scan, ui>>

\* setProjections(data), calculateInvestmentMetrics(data, ...) and setMetrics; the
\* TypeError of calculateInvestmentMetrics leaves the effect before setMetrics
EffectFinish ==
  /\ pc = "effect"
  /\ ~LoopContinues(month, FMul(call.years, FromInt(12)))
  /\ shown' = data
  /\ call' = [call EXCEPT !.calls = Append(@, "calculateInvestmentMetrics")]
  /\ IF MetricsThrows(data)
     THEN pc' = "crashed" /\ threw' = TRUE /\ UNCHANGED metrics
     ELSE /\ pc' = "idle"
          /\ metrics' = calculateInvestmentMetrics(data, call.initialInvestment,
                                                   call.monthlyContribution,
                                                   call.annualRate,
                                                   call.targetMonthlyIncome)
          /\ UNCHANGED threw
  /\ UNCHANGED <<ret, low, high, evals, month, data, history, scan, state, pending>>

NextEffect ==
  \/ EffectStart
  \/ EffectStep
  \/ EffectFinish
  \/ SetMode
  \/ SetInitialInvestment
  \/ SetMonthlyContribution
  \/ SetInvestmentYears
  \/ SetTargetMonthlyIncome
  \/ SetTargetYears
  \/ SetUseCustomRate
  \/ SetCustomInterestRate

SpecEffect == Init /\ [][NextEffect]_vars

(***************************************************************************)
(* A caller that computes the metrics of two series, one after the other.  *)
(* The series are arrays of MonthData of any content, as the parameter     *)
(* type MonthData[] allows, not only results of calculateProjections.      *)
(***************************************************************************)
\* a MonthData with the month and the balance given
PairPoint(m, b) ==
  MonthData(m, FromInt(b), FromInt(10000), FromInt(b), FromInt(b), FromInt(b), FromInt(b))

PairSeries ==
  {<<PairPoint(2, 10100)>>,
   <<PairPoint(1, 10050), PairPoint(2, 10100)>>,
   <<PairPoint(3, 10150), PairPoint(2, 10100)>>,
   <<PairPoint(1, 10050)>>}
PairContributions == {0, 500}
PairTargets == {Undefined, Dec(334, 10)}

\* calculateInvestmentMetrics(projections, 10000, c, 10, t)
PairCall(projections, c, t) ==
  /\ pc = "idle"
  /\ call' = [fn |-> "calculateInvestmentMetrics", initialInvestment |-> 10000,
              monthlyContribution |-> c, annualRate |-> <<10, 1>>, targetMonthlyIncome |-> t]
  /\ data' = projections
  /\ metrics' = calculateInvestmentMetrics(projections, FromInt(10000), FromInt(c),
                                           FromInt(10), t)
  /\ UNCHANGED <<ret, low, high, evals, month, threw, scan, ui>>

\* the first call; the caller keeps its arguments and its result
PairFirst ==
  /\ history = <<>>
  /\ \E projections \in PairSeries, c \in PairContributions, t \in PairTargets :
       PairCall(projections, c, t)
  /\ history' = <<[args |-> call', series |-> data', metrics |-> metrics']>>
  /\ pc' = "idle"

\* the second call
PairSecond ==
  /\ Len(history) = 1
  /\ \E projections \in PairSeries, c \in PairContributions, t \in PairTargets :
       PairCall(projections, c, t)
  /\ pc' = "returned"
  /\ UNCHANGED history

NextPair ==
  \/ PairFirst
  \/ PairSecond

SpecPair == Init /\ [][NextPair]_vars

(***************************************************************************)
(* A caller that only searches milestones.                                 *)
(***************************************************************************)
NextBisect ==
  \/ MilestoneCall
  \/ MilestoneStep
  \/ MilestoneReturn
  \/ Resume

SpecBisect == Init /\ [][NextBisect]_vars

(***************************************************************************)
(* A caller that compounds a principal, without contributions, at negative *)
(* rates down to the neighbourhood of -1200, over up to MaxDecayMonths.    *)
(***************************************************************************)
MaxDecayMonths == 130
DecayPrincipals == {1000}
DecayRates == {<<-1, 10>>, <<-37, 1>>, <<-1199, 1>>}

CallDecay ==
  /\ pc = "idle"
  /\ \E p \in DecayPrincipals, r \in DecayRates, n \in 0..MaxDecayMonths :
       /\ call' = [fn |-> "calculateFutureValue", principal |-> p,
                   monthlyContribution |-> 0, annualRate |-> r, months |-> n]
       /\ ret' = calculateFutureValue(FromInt(p), Zero, Lit(r), FromInt(n))
  /\ pc' = "returned"
  /\ UNCHANGED <<low, high, evals, month, data, metrics, threw, history, scan, ui>>

NextDecay ==
  \/ CallDecay
  \/ Resume

SpecDecay == Init /\ [][NextDecay]_vars

(***************************************************************************)
(* Claims.                                                                 *)
(***************************************************************************)
\* C1: at a rate of exactly 0, calculateFutureValue returns the finite value
\* principal + contribution * periods (futureValue(1000, 100, 0, 12) = 2200).
C1_ZeroRateIsLinear ==
  (pc = "returned" /\ call.fn = "calculateFutureValue" /\ call.annualRate[1] = 0)
    => ret = FromInt(call.principal + call.monthlyContribution * call.months)

\* C2: a milestone call with principal >= target returns 0; with principal < target
\* and the target reached within 1200 months it returns P / 12 for the first month
\* P whose balance is at or above the target (the balance at rate 0 is
\* principal + contribution * months).
C2_MilestoneIsFirstMonth ==
  (pc = "returned" /\ call.fn = "calculateYearsToMilestone") =>
    LET b == call.currentBalance
        c == call.monthlyContribution
        t == call.targetAmount
        fv(k) == calculateFutureValue(FromInt(b), FromInt(c), Lit(call.annualRate), FromInt(k))
    IN IF b >= t THEN ret = Zero
       ELSE IF call.annualRate[1] = 0
            THEN (b + c * MaxMonths >= t) =>
                   /\ low \in 1..MaxMonths
                   /\ ret = Dec(low, 12)
                   /\ b + c * (low - 1) < t
                   /\ t <= b + c * low
            ELSE (\E k \in 0..MaxMonths : FGe(fv(k), FromInt(t))) =>
                   /\ low \in 1..MaxMonths
                   /\ ret = Dec(low, 12)
                   /\ FLt(fv(low - 1), FromInt(t))
                   /\ FGe(fv(low), FromInt(t))

\* C3: when the zero clamp does not trigger, the required principal put back into
\* calculateFutureValue with the same contribution, rate and periods gives the target.
C3_RoundTrip ==
  (pc = "returned" /\ call.fn = "calculateRequiredInvestment") =>
    LET t == FromInt(call.targetAmount)
        c == FromInt(call.monthlyContribution)
        r == Lit(call.annualRate)
        n == FromInt(call.months)
        back == calculateFutureValue(ret, c, r, n)
    IN ~FLt(requiredPrincipal(t, c, r, n), Zero) =>
         /\ FLe(FSub(back, t), Dec(1, 1000000))
         /\ FLe(FSub(t, back), Dec(1, 1000000))

\* C4: calculateRequiredInvestment never returns a value below 0, and returns exactly 0
\* when the contributions alone grow to the target or beyond.
C4_RequiredIsNonNegative ==
  (pc = "returned" /\ call.fn = "calculateRequiredInvestment") =>
    LET t == FromInt(call.targetAmount)
        c == FromInt(call.monthlyContribution)
        r == Lit(call.annualRate)
        n == FromInt(call.months)
    IN /\ FGe(ret, Zero)
       /\ FGe(calculateFutureValue(Zero, c, r, n), t) => ret = Zero

\* C5: at a rate of exactly 0, calculateRequiredInvestment returns the finite value
\* max(0, target - contribution * periods).
C5_ZeroRateRequired ==
  (pc = "returned" /\ call.fn = "calculateRequiredInvestment" /\ call.annualRate[1] = 0)
    => ret = FromInt(Max2(0, call.targetAmount - call.monthlyContribution * call.months))

\* C6: with principal, contribution and rate all >= 0 (rate 0 included) the future
\* value does not decrease from one period count to the next.
C6_MonotoneInPeriods ==
  (pc = "returned" /\ call.fn = "calculateFutureValue" /\ call.annualRate[1] >= 0) =>
    FLe(ret, calculateFutureValue(FromInt(call.principal), FromInt(call.monthlyContribution),
                                  Lit(call.annualRate), FromInt(call.months + 1)))

\* C7 as stated: a returned series has exactly years * 12 points.
C7_LengthIsYearsTimes12 ==
  (pc = "projected") => FromInt(Len(data)) = MonthsOf(call.years)

\* C7, amended: a returned series has max(0, floor(years * 12)) points; that is
\* years * 12 when years * 12 is a non-negative integer, and no point when
\* years * 12 is below 1.
C7_LengthIsWholeMonths ==
  (pc = "projected") =>
    LET months == MonthsOf(call.years)
    IN /\ Len(data) = IF FGe(months, One) THEN ToInt(FFloor(months)) ELSE 0
       /\ (IsInteger(months) /\ FGe(months, Zero)) => FromInt(Len(data)) = months

\* a projection over a tenth of a year returned one point
C7_Witness ==
  pc = "projected" /\ call.years = <<1, 10>> /\ Len(data) = 1 /\ data[1].month = 1

\* C8: every series calculateProjections returns is non-empty, and
\* calculateInvestmentMetrics returns a value for it instead of throwing.
C8_MetricsNeverThrows ==
  (pc = "returned" /\ call.fn = "calculateInvestmentMetrics") => (Len(data) > 0 /\ ~threw)

C10_SameArgumentsSameSeries ==
  \A i, j \in 1..Len(history) :
    history[i].args = history[j].args => history[i].series = history[j].series

\* the same projection was returned twice, with a different one in between
C10_Witness ==
  /\ Len(history) = 3
  /\ history[1].args = history[3].args
  /\ history[2].args # history[1].args
  /\ Len(history[1].series) = 3
  /\ Len(history[3].series) = 3

\* C11: the metrics are taken from the final point of the series: finalBalance,
\* totalContributions, totalGains and inflationAdjustedValue are that point's
\* balance, contributions, gains and inflationAdjusted, vsSavings and vsBonds are
\* its balance minus its savingsAccount and bonds, and monthlyIncome is
\* round(finalBalance * 0.04 / 12).
C11_MetricsFromFinalPoint ==
  (pc = "returned" /\ call.fn = "calculateInvestmentMetrics" /\ ~threw) =>
    /\ metrics.finalBalance = data[Len(data)].balance
    /\ metrics.totalContributions = data[Len(data)].contributions
    /\ metrics.totalGains = data[Len(data)].gains
    /\ metrics.inflationAdjustedValue = data[Len(data)].inflationAdjusted
    /\ metrics.vsSavings = FSub(data[Len(data)].balance, data[Len(data)].savingsAccount)
    /\ metrics.vsBonds = FSub(data[Len(data)].balance, data[Len(data)].bonds)
    /\ metrics.monthlyIncome =
         FRound(FDiv(FMul(metrics.finalBalance, Dec(4, 100)), FromInt(12)))

\* the metrics of a two-year projection of 10000 + 500 a month at 10%
C11_Witness ==
  /\ pc = "returned" /\ call.fn = "calculateInvestmentMetrics" /\ ~threw
  /\ call.annualRate = <<10, 1>> /\ call.monthlyContribution = 500
  /\ Len(data) = 24
  /\ metrics.finalBalance = FromInt(25427)
  /\ metrics.totalGains = FromInt(3427)
  /\ metrics.monthlyIncome = FromInt(85)

\* the future value as C1 states it: the closed form, linear at a rate of 0
futureValue(p, c, r, n) ==
  IF IsZero(r) THEN FAdd(p, FMul(c, n)) ELSE calculateFutureValue(p, c, r, n)

\* the value at the candidate rate k / 10 of the required-rate scan
CandidateValue(p, c, n, k) == futureValue(FromInt(p), FromInt(c), Dec(k, 10), FromInt(n))

\* the index of the first candidate rate k / 10, k in 0..500, whose value over n
\* months reaches the balance tb, or -1 when there is none
FirstCandidate(p, c, n, tb) ==
  IF \E k \in 0..500 : FGe(CandidateValue(p, c, n, k), tb)
  THEN CHOOSE k \in 0..500 :
         /\ FGe(CandidateValue(p, c, n, k), tb)
         /\ \A j \in 0..(k - 1) : ~FGe(CandidateValue(p, c, n, j), tb)
  ELSE -1

\* C12: with a target monthly income supplied, the reported requiredRate is the
\* first of the candidates 0, 0.1, ..., 50 (0 included) whose future value over the
\* series length is at least target * 12 / 0.04, or 0 when there is none; without
\* a target it is 0; the loop makes at most 501 evaluations.
C12_FirstCandidateReported ==
  /\ scan.evals <= 501
  /\ (pc = "returned" /\ call.fn = "requiredRate") =>
       IF call.targetMonthlyIncome = Undefined THEN ret = Zero
       ELSE ret = Dec(Max2(0, FirstCandidate(call.initialInvestment, call.monthlyContribution,
                                             call.length,
                                             targetBalance(call.targetMonthlyIncome))), 10)

\* the future value of C1 stays below the target t in every month 0..1200
Unreached(p, c, r, t) ==
  \A k \in 0..MaxMonths : FLt(futureValue(FromInt(p), FromInt(c), r, FromInt(k)), FromInt(t))

\* C13: with principal < target and the future value below the target in every
\* month 0..1200, calculateYearsToMilestone returns exactly 100, and the card
\* shows N/A for Years to $1M.
C13_UnreachedIsHundred ==
  /\ (pc = "returned" /\ call.fn = "calculateYearsToMilestone"
        /\ call.currentBalance < call.targetAmount
        /\ Unreached(call.currentBalance, call.monthlyContribution, Lit(call.annualRate),
                     call.targetAmount))
       => ret = FromInt(100)
  /\ (pc = "returned" /\ call.fn = "calculateInvestmentMetrics" /\ ~threw
        /\ Unreached(call.initialInvestment, call.monthlyContribution, Lit(call.annualRate),
                     1000000))
       => ~ShowsYears(metrics.yearsTo1M)

\* the value one month after the returned one, for the same principal and rate
NextMonthValue ==
  calculateFutureValue(FromInt(call.principal), FromInt(call.monthlyContribution),
                       Lit(call.annualRate), FromInt(call.months + 1))

NonNegative(x) == FGe(x, Zero)

\* C15: with principal >= 0 and contribution >= 0, every monetary field of every
\* emitted point other than gains is a non-negative number.
C15_FieldsNonNegative ==
  \A i \in 1..Len(data) :
    /\ NonNegative(data[i].balance)
    /\ NonNegative(data[i].contributions)
    /\ NonNegative(data[i].inflationAdjusted)
    /\ NonNegative(data[i].savingsAccount)
    /\ NonNegative(data[i].bonds)
    /\ NonNegative(data[i].bestCase)
    /\ NonNegative(data[i].worstCase)

\* C18: the bisection of calculateYearsToMilestone keeps 0 <= low <= high <= 1200,
\* makes at most 11 evaluations, has low = high when it returns, and every
\* iteration strictly shrinks high - low.
C18_BisectionShrinks ==
  /\ [](pc = "bisect" => (0 <= low /\ low <= high /\ high <= MaxMonths /\ evals <= 11))
  /\ []((pc = "returned" /\ call.fn = "calculateYearsToMilestone"
           /\ call.currentBalance < call.targetAmount) => (low = high /\ evals <= 11))
  /\ [][(pc = "bisect" /\ pc' = "bisect") => (high' - low' < high - low)]_vars

\* a bisection at 10% that found the month of the milestone, below the horizon,
\* with its eleventh evaluation
C18_Witness ==
  /\ pc = "returned" /\ call.fn = "calculateYearsToMilestone"
  /\ call.annualRate = <<10, 1>>
  /\ evals = 11 /\ low = high /\ low \in 1..(MaxMonths - 1)

\* two calls of calculateInvestmentMetrics were made with the same principal,
\* contribution, rate and target income on series with equal final points
SameFinalPoint ==
  /\ pc = "returned" /\ Len(history) = 1
  /\ history[1].args = call
  /\ history[1].series[Len(history[1].series)] = data[Len(data)]

DefaultProjected ==
  /\ call.fn = "useEffect"
  /\ call.initialInvestment = FromInt(10000)
  /\ call.monthlyContribution = FromInt(500)
  /\ call.annualRate = FromInt(10)
  /\ call.years = FromInt(30)
  /\ month = 361

\* C16 as stated: with principal 10000, contribution 500, rate 10 and 30 years the
\* balance of the last point is approximately 1,128,955 (here: within 1 %).
C16_About1128955 ==
  DefaultProjected =>
    /\ FLt(FromInt(1128955 - 11290), data[Len(data)].balance)
    /\ FLt(data[Len(data)].balance, FromInt(1128955 + 11290))

\* C16, amended: with principal 10000, contribution 500, rate 10 and 30 years the
\* series has 360 points and the balance of the last one is the closed-form value
\* rounded to the nearest integer, 1,328,618.
C16_DefaultFinalBalance ==
  DefaultProjected =>
    /\ Len(data) = 360
    /\ data[360].balance = FromInt(1328618)
    /\ data[360].balance = FRound(calculateFutureValue(FromInt(10000), FromInt(500),
                                                       FromInt(10), FromInt(360)))

\* the effect has run for the initial state and the component shows 360 points
C16_Witness ==
  /\ DefaultProjected
  /\ pc = "idle" /\ ~pending
  /\ state = InitialState
  /\ Len(shown) = 360
  /\ metrics.finalBalance = FromInt(1328618)

\* the effect has run for the current state
EffectRan == call.fn = "useEffect" /\ ~pending /\ pc \in {"idle", "crashed"}

\* the series shown is the one calculateProjections yields for the state s
ShownFor(s) ==
  /\ Len(shown) > 0
  /\ ~LoopContinues(Len(shown) + 1, FMul(YearsOf(s), FromInt(12)))
  /\ shown[Len(shown)] = MonthPoint(PrincipalOf(s), OrElse(s.monthlyContribution, Zero),
                                    RateOf(s), Len(shown))

\* C17: once the effect has run after a change of an input, metrics.finalBalance
\* equals the balance of the last point of the projection shown, and both belong
\* to the current inputs.
C17_ShownMatchesInputs ==
  EffectRan =>
    /\ ShownFor(state)
    /\ metrics.finalBalance = shown[Len(shown)].balance

\* the principal the effect is to pass on, as C20 gives it
PrincipalToPass(s) ==
  IF s.mode = "goal"
  THEN calculateRequiredInvestment(
         FDiv(FMul(OrElse(s.targetMonthlyIncome, Zero), FromInt(12)), Dec(4, 100)),
         OrElse(s.monthlyContribution, Zero), RateOf(s),
         FMul(OrElse(s.targetYears, FromInt(30)), FromInt(12)))
  ELSE OrElse(s.initialInvestment, Zero)

\* the principal p shows in the first point of the series and in the metrics
PrincipalPassed(p, c, r) ==
  /\ shown[1].contributions = FRound(FAdd(p, FMul(c, One)))
  /\ metrics.yearsTo1M = RoundTenth(calculateYearsToMilestone(p, c, r, FromInt(1000000)))

\* C20: in goal mode the effect first calls calculateRequiredInvestment and passes
\* its value as the principal to calculateProjections and to
\* calculateInvestmentMetrics; in investment mode it never calls
\* calculateRequiredInvestment and passes the initial investment of the state.
C20_RequiredPrincipalUpstream ==
  (call.fn = "useEffect" /\ ~pending) =>
    /\ call.mode = state.mode
    /\ call.initialInvestment = PrincipalToPass(state)
    /\ IF state.mode = "goal"
       THEN call.calls[1] = "calculateRequiredInvestment"
            /\ call.calls[2] = "calculateProjections"
       ELSE \A i \in 1..Len(call.calls) : call.calls[i] # "calculateRequiredInvestment"
    /\ (pc = "idle") =>
         /\ call.calls[Len(call.calls)] = "calculateInvestmentMetrics"
         /\ PrincipalPassed(PrincipalToPass(state), call.monthlyContribution,
                            call.annualRate)

\* the effect has run in goal mode for a target income of 10000 in a quarter of a
\* year, with a positive required principal
C20_Witness ==
  /\ call.fn = "useEffect" /\ ~pending /\ pc = "idle"
  /\ state.mode = "goal"
  /\ state.targetMonthlyIncome = FromInt(10000)
  /\ state.targetYears = Dec(25, 100)
  /\ FLt(Zero, call.initialInvestment)
  /\ call.calls = <<"calculateRequiredInvestment", "calculateProjections",
                    "calculateInvestmentMetrics">>
  /\ Len(shown) = 3

\* C21: when the balance is below the target, calculateYearsToMilestone returns a
\* number of years strictly greater than 0, for every contribution and every rate,
\* 0 included.
C21_ZeroOnlyWhenMet ==
  (pc = "returned" /\ call.fn = "calculateYearsToMilestone"
     /\ call.currentBalance < call.targetAmount)
    => FLt(Zero, ret)

\* calculateInvestmentMetrics has returned its object
MetricsReturned == pc = "returned" /\ call.fn = "calculateInvestmentMetrics" /\ ~threw

\* C22: the milestone results of calculateInvestmentMetrics are ordered,
\* yearsTo1M <= yearsTo2M <= yearsTo5M, and yearsTo2M - yearsTo1M, which the
\* insights show, is never negative.
C22_MilestonesOrdered ==
  MetricsReturned =>
    /\ FLe(metrics.yearsTo1M, metrics.yearsTo2M)
    /\ FLe(metrics.yearsTo2M, metrics.yearsTo5M)
    /\ FGe(FSub(metrics.yearsTo2M, metrics.yearsTo1M), Zero)

\* metrics with three different milestones, all reached within the 100 years
C22_Witness ==
  /\ MetricsReturned
  /\ FLt(Zero, metrics.yearsTo1M)
  /\ FLt(metrics.yearsTo1M, metrics.yearsTo2M)
  /\ FLt(metrics.yearsTo2M, metrics.yearsTo5M)
  /\ ShowsYears(metrics.yearsTo5M)

\* the effect has run for the current state and has set the metrics
Rendered == EffectRan /\ pc = "idle"

\* the two what-if figures computed at the annual rate r
EarlyAt(r) ==
  FSub(calculateFutureValue(PrincipalOf(state), OrElse(state.monthlyContribution, Zero), r,
                            FMul(FAdd(YearsOf(state), FromInt(5)), FromInt(12))),
       metrics.finalBalance)
ExtraAt(r) ==
  FSub(calculateFutureValue(PrincipalOf(state),
                            FAdd(OrElse(state.monthlyContribution, Zero), FromInt(500)), r,
                            FMul(YearsOf(state), FromInt(12))),
       metrics.finalBalance)

\* C23: the what-if figures of the insights are computed at the annual rate of the
\* projection shown (the custom rate when it is selected), and both are >= 0.
\* Stated for the positive rates; at rate 0 the projection itself is NaN (C1).
C23_WhatIfAtShownRate ==
  (Rendered /\ FLt(Zero, RateOf(state))) =>
    /\ earlyAdvantage(metrics.finalBalance, PrincipalOf(state),
                      OrElse(state.monthlyContribution, Zero), YearsOf(state))
         = EarlyAt(RateOf(state))
    /\ extraFromContribution(metrics.finalBalance, PrincipalOf(state),
                             OrElse(state.monthlyContribution, Zero), YearsOf(state))
         = ExtraAt(RateOf(state))
    /\ FGe(EarlyAt(SP500_INTEREST), Zero)
    /\ FGe(ExtraAt(SP500_INTEREST), Zero)

\* the zero clamp of calculateRequiredInvestment did not trigger
NotClamped == FLt(Zero, call.initialInvestment) \/ call.initialInvestment.k = "nan"

\* C24: in goal mode, when the zero clamp does not trigger, the monthly income of
\* the metrics is within one currency unit of the target monthly income entered,
\* for every rate of the rate input, 0 included.
C24_IncomeIsTarget ==
  (Rendered /\ state.mode = "goal" /\ Truthy(state.targetMonthlyIncome) /\ NotClamped)
    => /\ FLe(FSub(metrics.monthlyIncome, state.targetMonthlyIncome), One)
       /\ FLe(FSub(state.targetMonthlyIncome, metrics.monthlyIncome), One)

\* the comparison balances of the point d are ordered by their rates
ComparisonsOrdered(d) ==
  /\ FLe(d.worstCase, d.savingsAccount)
  /\ FLe(d.savingsAccount, d.bonds)
  /\ FLe(d.bonds, d.bestCase)

\* C25: at every point of every series of calculateProjections with principal >= 0
\* and contribution >= 0, worstCase <= savingsAccount <= bonds <= bestCase.
C25_ComparisonsOrdered ==
  (call.fn = "calculateProjections" /\ call.initialInvestment >= 0
     /\ call.monthlyContribution >= 0)
    => \A i \in 1..Len(data) : ComparisonsOrdered(data[i])

\* a series of at least a year was returned whose last point has four different
\* comparison balances
C25_Witness ==
  /\ pc = "projected" /\ call.fn = "calculateProjections"
  /\ Len(data) >= 12
  /\ FLt(data[Len(data)].worstCase, data[Len(data)].savingsAccount)
  /\ FLt(data[Len(data)].savingsAccount, data[Len(data)].bonds)
  /\ FLt(data[Len(data)].bonds, data[Len(data)].bestCase)

\* C26: in every point pushed by calculateProjections the rounded fields are
\* consistent, gains = balance - contributions, for integer and non-integer
\* principals alike.  Every point is the last of data when it is pushed.
C26_GainsConsistent ==
  (call.fn = "useEffect" /\ Len(data) > 0)
    => data[Len(data)].gains
         = FSub(data[Len(data)].balance, data[Len(data)].contributions)

\* C27: at every point of a series of calculateProjections with a non-negative
\* balance, inflationAdjusted <= balance, and in the metrics
\* inflationAdjustedValue <= finalBalance.
C27_InflationAdjustedBelow ==
  /\ call.fn = "calculateProjections"
       => \A i \in 1..Len(data) :
            FGe(data[i].balance, Zero) => FLe(data[i].inflationAdjusted, data[i].balance)
  /\ (MetricsReturned /\ FGe(metrics.finalBalance, Zero))
       => FLe(metrics.inflationAdjustedValue, metrics.finalBalance)

\* metrics of a series with a positive final balance whose inflation-adjusted
\* value is strictly below it
C27_Witness ==
  /\ MetricsReturned
  /\ FLt(Zero, metrics.inflationAdjustedValue)
  /\ FLt(metrics.inflationAdjustedValue, metrics.finalBalance)
  /\ FLt(data[Len(data)].inflationAdjusted, data[Len(data)].balance)

\* the fields of CalculatorState in which s and t differ
ChangedFields(s, t) == {f \in DOMAIN s : s[f] # t[f]}

\* C28: every input handler changes exactly one field of the state and leaves the
\* others as they are, and the rate of the projection is customInterestRate when
\* useCustomRate is true and 10 otherwise.
C28_OneFieldPerHandler ==
  /\ [][state' # state => Cardinality(ChangedFields(state, state')) = 1]_vars
  /\ []((call.fn = "useEffect" /\ ~pending)
          => call.annualRate = IF state.useCustomRate THEN state.customInterestRate
                               ELSE FromInt(10))

\* in goal mode, after the custom rate was set to 15 and turned off again, the
\* state still holds the 15, the amounts of the investment mode and the inputs of
\* the goal mode, and the projection was made at 10
C28_Witness ==
  /\ Rendered
  /\ state.mode = "goal"
  /\ ~state.useCustomRate
  /\ state.customInterestRate = FromInt(15)
  /\ state.initialInvestment = FromInt(10000)
  /\ state.investmentYears = FromInt(30)
  /\ state.targetYears = Dec(25, 100)
  /\ state.targetMonthlyIncome = FromInt(10000)
  /\ call.annualRate = FromInt(10)
====
